---- MODULE Spec2Model ----
(***************************************************************************)
(* Model of dashboard.py: the device listing (get_connected_clients), the  *)
(* policy upsert (update_client_settings) and the three toggle endpoints,  *)
(* over the three external stores they read and write: the dnsmasq lease   *)
(* file, the AdGuard client registry and the iptables FORWARD chain.       *)
(***************************************************************************)
EXTENDS Integers, Sequences, FiniteSets, TLC

VARIABLES
    leaseFile,     \* lines of DNSMASQ_LEASES, each a tuple of whitespace-separated fields
    clients,       \* the registry's configured clients ("clients" of /control/clients)
    auto_clients,  \* the registry's auto-detected clients ("auto_clients")
    rules,         \* number of "-s ip -j DROP" rules of the FORWARD chain, per address
    last,          \* the request being answered: its inputs, adapter outcomes and result
    prev,          \* what the request answered before it asked for
    served,        \* number of requests handled so far
    threads        \* the calls of update_client_settings in progress at once, by thread

vars == <<leaseFile, clients, auto_clients, rules, last, prev, served, threads>>

----------------------------------------------------------------------------
(* Bounds of the model *)

MaxLeaseLines == 2     \* lines of the lease file
MaxInitClients == 2    \* configured clients the registry starts with
MaxClients == 3        \* configured clients the registry may grow to
MaxAuto == 1           \* auto-detected clients
MaxRules == 2          \* DROP rules per address the chain may hold
MaxRequests == 2       \* requests handled in one behaviour

----------------------------------------------------------------------------
(* Values *)

Addr == {"10.0.0.1", "10.0.0.2"}

\* An optional argument: <<>> is Python's None, <<v>> a supplied value.
None == <<>>
Some(v) == <<v>>

BLOCKED_SERVICES ==
    [social_media  |-> {"youtube", "tiktok", "instagram", "facebook", "snapchat", "twitter"},
     gaming        |-> {"roblox", "fortnite", "minecraft", "twitch"},
     adult_content |-> {"adult", "porn"},
     all           |-> {}]

Categories == DOMAIN BLOCKED_SERVICES

\* The services the dashboard's "Block Social Media" checkbox looks for.
UI_SOCIAL_MEDIA == {"youtube", "tiktok", "instagram"}

\* Line 442: the checkbox is checked when some blocked service is one of these.
SocialToggleShown(device) == device.blocked_services \cap UI_SOCIAL_MEDIA # {}

\* mac[-5:]
MacTail(mac) ==
    CASE mac = "AA:BB:CC:DD:EE:01" -> "EE:01"
      [] mac = "AA:BB:CC:DD:EE:02" -> "EE:02"
      [] OTHER -> mac

----------------------------------------------------------------------------
(* Dictionaries in insertion order: keys is the order of first insertion *)

EmptyDict == [keys |-> <<>>, val |-> <<>>]

RECURSIVE IndexOf(_, _, _)
IndexOf(s, k, i) ==
    IF i > Len(s) THEN 0
    ELSE IF s[i] = k THEN i
    ELSE IndexOf(s, k, i + 1)

DictHas(d, k) == IndexOf(d.keys, k, 1) > 0

DictGet(d, k) == d.val[IndexOf(d.keys, k, 1)]

DictSet(d, k, v) ==
    IF DictHas(d, k)
    THEN [d EXCEPT !.val[IndexOf(d.keys, k, 1)] = v]
    ELSE [keys |-> Append(d.keys, k), val |-> Append(d.val, v)]

DictKeys(d) == {d.keys[i] : i \in 1..Len(d.keys)}

----------------------------------------------------------------------------
(* get_dhcp_leases *)

\* One line of the lease file: timestamp mac ip hostname [client-id]
ParseLine(devices, parts) ==
    IF Len(parts) >= 4
    THEN LET mac == parts[2]
             ip == parts[3]
             hostname == IF parts[4] # "*" THEN parts[4] ELSE "Device-" \o MacTail(mac)
         IN DictSet(devices, ip, [mac |-> mac, hostname |-> hostname, ip |-> ip])
    ELSE devices

RECURSIVE ParseLines(_, _, _)
ParseLines(devices, file, i) ==
    IF i > Len(file) THEN devices
    ELSE ParseLines(ParseLine(devices, file[i]), file, i + 1)

\* leaseOK = FALSE: the file is missing or cannot be opened; the dict stays empty.
get_dhcp_leases(file, leaseOK) ==
    IF leaseOK THEN ParseLines(EmptyDict, file, 1) ELSE EmptyDict

----------------------------------------------------------------------------
(* is_blocked_by_iptables: iptables -C exits 0 exactly when the rule is in *)
(* the chain; a check that cannot run (address in probeFail) gives False.  *)

is_blocked_by_iptables(r, ip, probeFail) ==
    /\ ip \in DOMAIN r
    /\ r[ip] > 0
    /\ ip \notin probeFail

----------------------------------------------------------------------------
(* get_connected_clients *)

FallbackDevice(dev) ==
    [name |-> dev.hostname, ip |-> dev.ip, mac |-> dev.mac,
     blocked_services |-> {}, safesearch_enabled |-> FALSE,
     bedtime_enabled |-> FALSE]

\* A fallback that gives up instead of listing the leases.
FallbackDevices_Empty(dhcp) == <<>>

\* The list returned when the registry query gives nothing.
FallbackDevices(dhcp) ==
    [i \in 1..Len(dhcp.keys) |-> FallbackDevice(dhcp.val[i])]

ConfiguredDevice(client, dhcp, r, probeFail) ==
    LET client_ip == IF Len(client.ids) > 0 THEN client.ids[1] ELSE "Unknown"
        known == DictHas(dhcp, client_ip)
    IN [name |-> client.name,
        ip |-> client_ip,
        mac |-> IF known THEN DictGet(dhcp, client_ip).mac ELSE "Unknown",
        blocked_services |-> client.blocked_services,
        safesearch_enabled |-> client.safesearch_enabled,
        use_global_settings |-> client.use_global_settings,
        filtering_enabled |-> client.filtering_enabled,
        bedtime_enabled |-> is_blocked_by_iptables(r, client_ip, probeFail)]

AutoDevice(client, dhcp, r, probeFail) ==
    LET client_ip == client.ip
        known == DictHas(dhcp, client_ip)
    IN [name |-> client.name,
        ip |-> client_ip,
        mac |-> IF known THEN DictGet(dhcp, client_ip).mac ELSE client.mac,
        blocked_services |-> {},
        safesearch_enabled |-> FALSE,
        use_global_settings |-> TRUE,
        filtering_enabled |-> TRUE,
        bedtime_enabled |-> is_blocked_by_iptables(r, client_ip, probeFail)]

LeaseDevice(device, r, probeFail) ==
    [name |-> device.hostname,
     ip |-> device.ip,
     mac |-> device.mac,
     blocked_services |-> {},
     safesearch_enabled |-> FALSE,
     use_global_settings |-> TRUE,
     filtering_enabled |-> TRUE,
     bedtime_enabled |-> is_blocked_by_iptables(r, device.ip, probeFail)]

\* any(c["ip"] == ip for c in all_clients)
HasIp(all_clients, ip) == \E i \in 1..Len(all_clients) : all_clients[i].ip = ip

ConfiguredDevices(cs, dhcp, r, probeFail) ==
    [i \in 1..Len(cs) |-> ConfiguredDevice(cs[i], dhcp, r, probeFail)]

\* AddAutoDevices, were an auto-detected client listed only when a lease names
\* its address.
RECURSIVE AddAutoDevices_NeedsLease(_, _, _, _, _, _)
AddAutoDevices_NeedsLease(all_clients, acs, i, dhcp, r, probeFail) ==
    IF i > Len(acs) THEN all_clients
    ELSE IF HasIp(all_clients, acs[i].ip) \/ ~DictHas(dhcp, acs[i].ip)
         THEN AddAutoDevices_NeedsLease(all_clients, acs, i + 1, dhcp, r, probeFail)
         ELSE AddAutoDevices_NeedsLease(
                  Append(all_clients, AutoDevice(acs[i], dhcp, r, probeFail)),
                  acs, i + 1, dhcp, r, probeFail)

RECURSIVE AddAutoDevices(_, _, _, _, _, _)
AddAutoDevices(all_clients, acs, i, dhcp, r, probeFail) ==
    IF i > Len(acs) THEN all_clients
    ELSE IF HasIp(all_clients, acs[i].ip)
         THEN AddAutoDevices(all_clients, acs, i + 1, dhcp, r, probeFail)
         ELSE AddAutoDevices(Append(all_clients, AutoDevice(acs[i], dhcp, r, probeFail)),
                             acs, i + 1, dhcp, r, probeFail)

RECURSIVE AddLeaseDevices(_, _, _, _, _)
AddLeaseDevices(all_clients, dhcp, i, r, probeFail) ==
    IF i > Len(dhcp.keys) THEN all_clients
    ELSE IF HasIp(all_clients, dhcp.keys[i])
         THEN AddLeaseDevices(all_clients, dhcp, i + 1, r, probeFail)
         ELSE AddLeaseDevices(Append(all_clients, LeaseDevice(dhcp.val[i], r, probeFail)),
                              dhcp, i + 1, r, probeFail)

\* regOK = FALSE: call_adguard_api("/control/clients") returned None (or {}).
get_connected_clients(file, cs, acs, r, leaseOK, regOK, probeFail) ==
    LET dhcp_devices == get_dhcp_leases(file, leaseOK)
    IN IF ~regOK
       THEN FallbackDevices(dhcp_devices)
       ELSE AddLeaseDevices(
                AddAutoDevices(ConfiguredDevices(cs, dhcp_devices, r, probeFail),
                               acs, 1, dhcp_devices, r, probeFail),
                dhcp_devices, 1, r, probeFail)

----------------------------------------------------------------------------
(* run_iptables: outcome "ok" when iptables exits 0, "error" when it exits *)
(* non-zero (CalledProcessError, reported as False), "raise" when running  *)
(* it throws anything else, which run_iptables does not catch.             *)

IptablesOutcomes == {"ok", "error", "raise"}

run_iptables(r, flag, ip, outcome) ==
    IF outcome # "ok" THEN r
    ELSE IF flag = "-I" THEN [r EXCEPT ![ip] = @ + 1]
    ELSE [r EXCEPT ![ip] = @ - 1]

----------------------------------------------------------------------------
(* update_client_settings *)

\* The record of one is_blocked_by_iptables call in a request's calls.
ProbeCall(blocked) == IF blocked THEN "probe:blocked" ELSE "probe:clear"

\* BedtimeStep, were an absent bedtime_mode taken as a request to lift the rule
\* ("if bedtime_mode: ... else: ..." without the test for None).
BedtimeStep_NoneIsOff(r, client_ip, bedtime_mode, probeOK, outcome) ==
    LET probeFail == IF probeOK THEN {} ELSE {client_ip}
        blocked == is_blocked_by_iptables(r, client_ip, probeFail)
        on == bedtime_mode # None /\ bedtime_mode[1]
    IN IF on = blocked
       THEN [rules |-> r, calls |-> <<ProbeCall(blocked)>>, raised |-> FALSE]
       ELSE [rules |-> run_iptables(r, IF on THEN "-I" ELSE "-D", client_ip, outcome),
             calls |-> <<ProbeCall(blocked),
                         (IF on THEN "insert:" ELSE "delete:") \o outcome>>,
             raised |-> outcome = "raise"]

\* BedtimeStep, were the rule inserted or deleted without looking at the probe.
BedtimeStep_Unchecked(r, client_ip, bedtime_mode, probeOK, outcome) ==
    LET probeFail == IF probeOK THEN {} ELSE {client_ip}
        blocked == is_blocked_by_iptables(r, client_ip, probeFail)
    IN IF bedtime_mode = None
       THEN [rules |-> r, calls |-> <<>>, raised |-> FALSE]
       ELSE IF r[client_ip] = 0 /\ ~bedtime_mode[1]
       THEN [rules |-> r, calls |-> <<ProbeCall(blocked)>>, raised |-> FALSE]
       ELSE [rules |-> run_iptables(r, IF bedtime_mode[1] THEN "-I" ELSE "-D",
                                    client_ip, outcome),
             calls |-> <<ProbeCall(blocked),
                         (IF bedtime_mode[1] THEN "insert:" ELSE "delete:") \o outcome>>,
             raised |-> outcome = "raise"]

\* Lines 187-196: the bedtime step. calls lists the adapter calls made.
BedtimeStep(r, client_ip, bedtime_mode, probeOK, outcome) ==
    LET probeFail == IF probeOK THEN {} ELSE {client_ip}
        blocked == is_blocked_by_iptables(r, client_ip, probeFail)
    IN IF bedtime_mode = None
       THEN [rules |-> r, calls |-> <<>>, raised |-> FALSE]
       ELSE IF bedtime_mode[1]
            THEN IF ~blocked
                 THEN [rules |-> run_iptables(r, "-I", client_ip, outcome),
                       calls |-> <<ProbeCall(blocked), "insert:" \o outcome>>,
                       raised |-> outcome = "raise"]
                 ELSE [rules |-> r, calls |-> <<ProbeCall(blocked)>>, raised |-> FALSE]
            ELSE IF blocked
                 THEN [rules |-> run_iptables(r, "-D", client_ip, outcome),
                       calls |-> <<ProbeCall(blocked), "delete:" \o outcome>>,
                       raised |-> outcome = "raise"]
                 ELSE [rules |-> r, calls |-> <<ProbeCall(blocked)>>, raised |-> FALSE]

\* Lines 199-206: index of the first configured client whose ids contain the
\* address, 0 when there is none or when the query returned nothing.
RECURSIVE FirstWithId(_, _, _)
FirstWithId(cs, client_ip, i) ==
    IF i > Len(cs) THEN 0
    ELSE IF \E j \in 1..Len(cs[i].ids) : cs[i].ids[j] = client_ip THEN i
    ELSE FirstWithId(cs, client_ip, i + 1)

FindExisting(cs, client_ip, regOK) ==
    IF regOK THEN FirstWithId(cs, client_ip, 1) ELSE 0

\* UpdatedClient, were an argument that is not supplied written with the
\* default the add path gives it.
UpdatedClient_DefaultsUnsupplied(existing_client, blocked_services, safesearch) ==
    [existing_client EXCEPT
        !.blocked_services = IF blocked_services # None THEN blocked_services[1] ELSE {},
        !.safesearch_enabled = IF safesearch # None THEN safesearch[1] ELSE FALSE,
        !.filtering_enabled = TRUE]

\* UpdatedClient, were the blocked services not supplied written as empty.
UpdatedClient_ClearsServices(existing_client, blocked_services, safesearch) ==
    [existing_client EXCEPT
        !.blocked_services = IF blocked_services # None THEN blocked_services[1] ELSE {},
        !.safesearch_enabled = IF safesearch # None THEN safesearch[1] ELSE @,
        !.filtering_enabled = TRUE]

\* Lines 211-220: the record written back for an existing client.
UpdatedClient(existing_client, blocked_services, safesearch) ==
    [existing_client EXCEPT
        !.blocked_services = IF blocked_services # None THEN blocked_services[1] ELSE @,
        !.safesearch_enabled = IF safesearch # None THEN safesearch[1] ELSE @,
        !.filtering_enabled = TRUE]

\* NewClient, were the new client left on the registry's global settings.
NewClient_GlobalSettings(client_ip, dhcp_devices, blocked_services, safesearch) ==
    [name |-> IF DictHas(dhcp_devices, client_ip)
              THEN DictGet(dhcp_devices, client_ip).hostname
              ELSE "Device-" \o client_ip,
     ids |-> <<client_ip>>,
     use_global_settings |-> TRUE,
     filtering_enabled |-> TRUE,
     parental_enabled |-> FALSE,
     safebrowsing_enabled |-> TRUE,
     safesearch_enabled |-> IF safesearch # None THEN safesearch[1] ELSE FALSE,
     blocked_services |-> IF blocked_services # None THEN blocked_services[1] ELSE {}]

\* Lines 229-241: the record created for an address without a client.
NewClient(client_ip, dhcp_devices, blocked_services, safesearch) ==
    [name |-> IF DictHas(dhcp_devices, client_ip)
              THEN DictGet(dhcp_devices, client_ip).hostname
              ELSE "Device-" \o client_ip,
     ids |-> <<client_ip>>,
     use_global_settings |-> FALSE,
     filtering_enabled |-> TRUE,
     parental_enabled |-> FALSE,
     safebrowsing_enabled |-> TRUE,
     safesearch_enabled |-> IF safesearch # None THEN safesearch[1] ELSE FALSE,
     blocked_services |-> IF blocked_services # None THEN blocked_services[1] ELSE {}]

\* POST /control/clients/update {name, data}: the registry replaces the client
\* of that name; a failed call leaves the registry as it was.
RECURSIVE FirstNamed(_, _, _)
FirstNamed(cs, name, i) ==
    IF i > Len(cs) THEN 0
    ELSE IF cs[i].name = name THEN i
    ELSE FirstNamed(cs, name, i + 1)

RegistryUpdate(cs, name, data, writeOK) ==
    IF writeOK /\ FirstNamed(cs, name, 1) > 0
    THEN [cs EXCEPT ![FirstNamed(cs, name, 1)] = data]
    ELSE cs

\* POST /control/clients/add: the registry stores the new client.
RegistryAdd(cs, data, writeOK) ==
    IF writeOK THEN Append(cs, data) ELSE cs

\* A return value that ignores the outcome of the write.
ApplyResult_Always(writeOK) == "true"

\* Line 245: return result is not None
ApplyResult(writeOK) == IF writeOK THEN "true" ELSE "false"

Outcome(ok) == IF ok THEN "ok" ELSE "fail"

\* Lines 198-245: query, then update or add.
RegistryStep(cs, file, client_ip, blocked_services, safesearch, regOK, writeOK, leaseOK) ==
    LET found == FindExisting(cs, client_ip, regOK)
        query == <<"get_clients:" \o Outcome(regOK)>>
    IN IF found > 0
       THEN LET client_data == UpdatedClient(cs[found], blocked_services, safesearch)
            IN [clients |-> RegistryUpdate(cs, client_data.name, client_data, writeOK),
                calls |-> query \o <<"update:" \o Outcome(writeOK)>>,
                written |-> <<client_data>>,
                result |-> ApplyResult(writeOK)]
       ELSE LET client_data == NewClient(client_ip, get_dhcp_leases(file, leaseOK),
                                         blocked_services, safesearch)
            IN [clients |-> RegistryAdd(cs, client_data, writeOK),
                calls |-> query \o <<"get_leases:" \o Outcome(leaseOK),
                                     "add:" \o Outcome(writeOK)>>,
                written |-> <<client_data>>,
                result |-> ApplyResult(writeOK)]

\* env: [probeOK, outcome, regOK, writeOK, leaseOK], the outcomes of the
\* adapter calls the function makes.
update_client_settings(r, cs, file, client_ip, blocked_services, safesearch, bedtime_mode, env) ==
    LET b == BedtimeStep(r, client_ip, bedtime_mode, env.probeOK, env.outcome)
    IN IF b.raised
       THEN [rules |-> b.rules, clients |-> cs, calls |-> b.calls,
             written |-> <<>>, result |-> "raise"]
       ELSE LET g == RegistryStep(cs, file, client_ip, blocked_services, safesearch,
                                  env.regOK, env.writeOK, env.leaseOK)
            IN [rules |-> b.rules, clients |-> g.clients, calls |-> b.calls \o g.calls,
                written |-> g.written, result |-> g.result]

----------------------------------------------------------------------------
(* The external stores at start-up *)

LeaseLines ==
    <<  <<"1700000000", "AA:BB:CC:DD:EE:02", "10.0.0.2", "*">>,
        <<"1700000000", "AA:BB:CC:DD:EE:01", "10.0.0.1", "kids-tablet">>,
        <<"1700000000", "AA:BB:CC:DD:EE:02", "10.0.0.2">>  >>

ClientTemplates ==
    <<  [ids |-> <<"10.0.0.1">>, blocked_services |-> {},
         safesearch_enabled |-> FALSE, filtering_enabled |-> TRUE],
        [ids |-> <<"10.0.0.1", "10.0.0.2">>, blocked_services |-> {"facebook", "roblox"},
         safesearch_enabled |-> TRUE, filtering_enabled |-> FALSE]  >>

AutoTemplates ==
    <<  [ip |-> "10.0.0.1", name |-> "auto-1", mac |-> "Unknown"],
        [ip |-> "10.0.0.2", name |-> "auto-2", mac |-> "Unknown"]  >>

\* The first n entries of s, all of s when it is shorter.
Prefix(s, n) == SubSeq(s, 1, IF n < Len(s) THEN n ELSE Len(s))

\* The strictly increasing index sequences of length <= n over 1..m.
RECURSIVE Picks(_, _, _)
Picks(from, m, n) ==
    IF n = 0 \/ from > m THEN {<<>>}
    ELSE {<<>>} \cup UNION {{<<i>> \o p : p \in Picks(i + 1, m, n - 1)} : i \in from..m}

Select(templates, n) ==
    {[k \in 1..Len(p) |-> templates[p[k]]] : p \in Picks(1, Len(templates), n)}

ClientName(i) == IF i = 1 THEN "client-1" ELSE IF i = 2 THEN "client-2" ELSE "client-3"

Configured(ts) ==
    [i \in 1..Len(ts) |->
        [name |-> ClientName(i),
         ids |-> ts[i].ids,
         use_global_settings |-> FALSE,
         filtering_enabled |-> ts[i].filtering_enabled,
         parental_enabled |-> FALSE,
         safebrowsing_enabled |-> FALSE,
         safesearch_enabled |-> ts[i].safesearch_enabled,
         blocked_services |-> ts[i].blocked_services]]

NoRequest ==
    [kind |-> "none", ip |-> "", category |-> "", enabled |-> FALSE,
     blocked_services |-> None, safesearch |-> None, bedtime |-> None,
     leaseOK |-> TRUE, regOK |-> TRUE, probeFail |-> {},
     devices |-> <<>>, stats |-> None, calls |-> <<>>, written |-> <<>>,
     result |-> "none", status |-> 0]

\* Nothing of a request stays in the process once it is answered; prev keeps,
\* for the properties about two calls in a row, what the answered request asked
\* for, when that was bedtime on or created a client after a query that found
\* none: the address, the bedtime argument, whether the call returned, whether
\* it created a client, and the probe state it left behind.
NoPrev ==
    [ip |-> "", bedtime |-> None, returned |-> FALSE, created |-> FALSE,
     blocked |-> FALSE]

Threads == {"t1", "t2"}

\* A thread that is in no call: the locals of update_client_settings unset.
NoCall ==
    [pc |-> "idle", ip |-> "", blocked_services |-> None, safesearch |-> None,
     bedtime |-> None, existing |-> None, result |-> "none"]

Init ==
    /\ leaseFile \in {Prefix(LeaseLines, n) : n \in 0..MaxLeaseLines}
    /\ clients \in {Configured(ts) : ts \in Select(ClientTemplates, MaxInitClients)}
    /\ auto_clients = Prefix(AutoTemplates, MaxAuto)
    /\ rules \in {[a \in Addr |-> IF a \in blocked THEN 1 ELSE 0] :
                     blocked \in {{}, {"10.0.0.2"}}}
    /\ last = NoRequest
    /\ prev = NoPrev
    /\ served = 0
    /\ threads = [t \in Threads |-> NoCall]

----------------------------------------------------------------------------
(* Requests *)

Env(probeOK, outcome, regOK, writeOK, leaseOK) ==
    [probeOK |-> probeOK, outcome |-> outcome, regOK |-> regOK,
     writeOK |-> writeOK, leaseOK |-> leaseOK]

\* The status an endpoint answers with for the result of update_client_settings;
\* an exception leaving the handler is answered 500 by Flask.
StatusOf(result) == IF result = "true" THEN 200 ELSE 500

\* The adapter calls of get_connected_clients: the two reads, then on the merge
\* path one probe for each device emitted.
ListingCalls(devices, leaseOK, regOK) ==
    <<"get_leases:" \o Outcome(leaseOK), "get_clients:" \o Outcome(regOK)>>
    \o (IF regOK
        THEN [i \in 1..Len(devices) |-> ProbeCall(devices[i].bedtime_enabled)]
        ELSE <<>>)

\* A request is taken when the one before it has been answered.
Idle == served < MaxRequests /\ last.kind = "none"

\* GET /api/clients
ApiClients ==
    /\ Idle
    /\ \E leaseOK \in BOOLEAN, regOK \in BOOLEAN, probeFail \in {{}, Addr} :
        LET devices == get_connected_clients(leaseFile, clients, auto_clients, rules,
                                             leaseOK, regOK, probeFail)
        IN /\ last' = [NoRequest EXCEPT
                          !.kind = "list", !.leaseOK = leaseOK, !.regOK = regOK,
                          !.probeFail = probeFail, !.devices = devices,
                          !.calls = ListingCalls(devices, leaseOK, regOK),
                          !.status = 200]
           /\ served' = served + 1
           /\ UNCHANGED <<leaseFile, clients, auto_clients, rules, prev, threads>>

\* Lines 169-182: stats is the body /control/stats answered with, None when the
\* call failed.
get_stats(stats) ==
    IF stats # None
    THEN [ads_blocked_today |-> stats[1].num_blocked_filtering,
          dns_queries_today |-> stats[1].num_dns_queries,
          avg_processing_time |-> stats[1].avg_processing_time]
    ELSE [ads_blocked_today |-> 0, dns_queries_today |-> 0, avg_processing_time |-> 0]

\* GET /api/stats
ApiStats ==
    /\ Idle
    /\ \E stats \in {None, Some([num_blocked_filtering |-> 3, num_dns_queries |-> 10,
                                 avg_processing_time |-> 1])} :
        /\ last' = [NoRequest EXCEPT
                       !.kind = "stats", !.stats = Some(get_stats(stats)),
                       !.calls = <<"get_stats:" \o Outcome(stats # None)>>,
                       !.status = 200]
        /\ served' = served + 1
        /\ UNCHANGED <<leaseFile, clients, auto_clients, rules, prev, threads>>

\* What a call of update_client_settings does to the stores and to last.
Applied(kind, ip, blocked_services, safesearch, bedtime_mode, env, base) ==
    LET u == update_client_settings(rules, clients, leaseFile, ip,
                                    blocked_services, safesearch, bedtime_mode, env)
    IN /\ u.rules[ip] <= MaxRules
       /\ Len(u.clients) <= MaxClients
       /\ rules' = u.rules
       /\ clients' = u.clients
       /\ last' = [base EXCEPT
                      !.kind = kind, !.ip = ip,
                      !.blocked_services = blocked_services,
                      !.safesearch = safesearch, !.bedtime = bedtime_mode,
                      !.calls = base.calls \o u.calls, !.written = u.written,
                      !.result = u.result,
                      !.status = IF kind = "apply" THEN 0 ELSE StatusOf(u.result)]
       /\ served' = served + 1
       /\ UNCHANGED <<leaseFile, auto_clients, prev, threads>>

\* Rejected, were the request's fields checked only after the listing was fetched.
Rejected_AfterListing(kind, ip, status, base) ==
    LET devices == get_connected_clients(leaseFile, clients, auto_clients, rules,
                                         TRUE, TRUE, {})
    IN /\ last' = [base EXCEPT !.kind = kind, !.ip = ip, !.status = status,
                                !.devices = devices,
                                !.calls = ListingCalls(devices, TRUE, TRUE)]
       /\ served' = served + 1
       /\ UNCHANGED <<leaseFile, clients, auto_clients, rules, prev, threads>>

\* The endpoint answers with an error status and calls nothing further.
Rejected(kind, ip, status, base) ==
    /\ last' = [base EXCEPT !.kind = kind, !.ip = ip, !.status = status]
    /\ served' = served + 1
    /\ UNCHANGED <<leaseFile, clients, auto_clients, rules, prev, threads>>

\* The adapter outcomes that can matter to a call with these arguments: an
\* outcome is enumerated only for an adapter call the function gets to make.
Envs(ip, bedtime_mode) ==
    LET probed(p) == is_blocked_by_iptables(rules, ip, IF p THEN {} ELSE {ip})
        mutates(p) == bedtime_mode # None /\ bedtime_mode[1] # probed(p)
    IN {e \in {Env(p, o, g, w, l) : p \in BOOLEAN, o \in IptablesOutcomes,
                                    g \in BOOLEAN, w \in BOOLEAN, l \in BOOLEAN} :
           /\ (bedtime_mode = None \/ rules[ip] = 0) => e.probeOK
           /\ ~mutates(e.probeOK) => e.outcome = "ok"
           /\ e.outcome = "raise" => e.regOK /\ e.writeOK /\ e.leaseOK
           /\ FindExisting(clients, ip, e.regOK) > 0 => e.leaseOK}

\* The number of optional arguments supplied.
Supplied(args) == Cardinality({i \in 1..Len(args) : args[i] # None})

\* update_client_settings called with several of its optional arguments (the
\* endpoints below call it with one).
Apply ==
    /\ Idle
    /\ \E ip \in Addr,
          blocked_services \in {None, Some({"twitch"})},
          safesearch \in {None, Some(TRUE)},
          bedtime_mode \in {None, Some(TRUE), Some(FALSE)} :
        /\ Supplied(<<blocked_services, safesearch, bedtime_mode>>) >= 2
        /\ bedtime_mode # None => blocked_services = None
        /\ \E env \in Envs(ip, bedtime_mode) :
               Applied("apply", ip, blocked_services, safesearch, bedtime_mode, env, NoRequest)

\* POST /api/toggle-safesearch
ApiToggleSafesearch ==
    /\ Idle
    /\ \E ip \in Addr \cup {""}, enabled \in BOOLEAN :
        LET base == [NoRequest EXCEPT !.enabled = enabled]
        IN IF ip = ""
           THEN Rejected("toggle_safesearch", ip, 400, base)
           ELSE \E env \in Envs(ip, None) :
                    Applied("toggle_safesearch", ip, None, Some(enabled), None, env, base)

\* POST /api/toggle-bedtime
ApiToggleBedtime ==
    /\ Idle
    /\ \E ip \in Addr \cup {""}, enabled \in BOOLEAN :
        LET base == [NoRequest EXCEPT !.enabled = enabled]
        IN IF ip = ""
           THEN Rejected("toggle_bedtime", ip, 400, base)
           ELSE \E env \in Envs(ip, Some(enabled)) :
                    Applied("toggle_bedtime", ip, None, None, Some(enabled), env, base)

\* Lines 595-602: the blocked services a category toggle writes.
ToggledServices(current, category, enabled) ==
    LET services == IF category \in Categories THEN BLOCKED_SERVICES[category] ELSE {}
    IN IF enabled THEN current \cup services ELSE current \ services

\* FirstWithIp, were the last device of the listing taken when none has the
\* address.
RECURSIVE FirstWithIp_OrLast(_, _, _)
FirstWithIp_OrLast(devices, ip, i) ==
    IF i > Len(devices) THEN Len(devices)
    ELSE IF devices[i].ip = ip THEN i
    ELSE FirstWithIp_OrLast(devices, ip, i + 1)

\* next((c for c in clients if c['ip'] == client_ip), None), 0 for None
RECURSIVE FirstWithIp(_, _, _)
FirstWithIp(devices, ip, i) ==
    IF i > Len(devices) THEN 0
    ELSE IF devices[i].ip = ip THEN i
    ELSE FirstWithIp(devices, ip, i + 1)

\* POST /api/toggle-block
ApiToggleBlock ==
    /\ Idle
    /\ \E ip \in Addr \cup {""}, category \in {"social_media", ""}, enabled \in BOOLEAN :
        LET base == [NoRequest EXCEPT !.category = category, !.enabled = enabled]
        IN IF ip = "" \/ category = ""
           THEN Rejected("toggle_block", ip, 400, base)
           ELSE \E leaseOK \in BOOLEAN, regOK \in BOOLEAN, probeFail \in {{}} :
                   LET devices == get_connected_clients(leaseFile, clients, auto_clients,
                                                        rules, leaseOK, regOK, probeFail)
                       found == FirstWithIp(devices, ip, 1)
                       listed == [base EXCEPT
                                     !.leaseOK = leaseOK, !.regOK = regOK,
                                     !.probeFail = probeFail, !.devices = devices,
                                     !.calls = ListingCalls(devices, leaseOK, regOK)]
                   IN IF found = 0
                      THEN Rejected("toggle_block", ip, 404, listed)
                      ELSE \E env \in {e \in Envs(ip, None) : e.leaseOK = leaseOK} :
                               Applied("toggle_block", ip,
                                       Some(ToggledServices(devices[found].blocked_services,
                                                            category, enabled)),
                                       None, None, env, listed)

InCalls(c, l) == \E i \in 1..Len(l.calls) : l.calls[i] = c

\* The handler returns and the response is sent; the process keeps no state of
\* the request.
Respond ==
    /\ last.kind # "none"
    /\ served < MaxRequests
    /\ prev' = IF /\ last.result \in {"true", "false"}
                  /\ \/ last.bedtime = Some(TRUE)
                     \/ InCalls("get_clients:ok", last) /\ InCalls("add:ok", last)
               THEN [ip |-> last.ip, bedtime |-> last.bedtime, returned |-> TRUE,
                     created |-> InCalls("get_clients:ok", last) /\ InCalls("add:ok", last),
                     blocked |-> rules[last.ip] > 0]
               ELSE NoPrev
    /\ last' = NoRequest
    /\ UNCHANGED <<leaseFile, clients, auto_clients, rules, served, threads>>

Next ==
    \/ Respond
    \/ ApiStats
    \/ ApiClients
    \/ Apply
    \/ ApiToggleSafesearch
    \/ ApiToggleBedtime
    \/ ApiToggleBlock

Spec == Init /\ [][Next]_vars

----------------------------------------------------------------------------
(* Two requests at once. Flask's server handles each request on a thread of *)
(* its own and update_client_settings holds no lock, so two calls interleave *)
(* at their adapter calls: the probe, run_iptables, the registry query, the  *)
(* registry write. Each of those is one step of the calling thread; the      *)
(* locals of the call (existing_client) stay with the thread between steps.  *)
(* The probe works here; its failures are Spec's.                            *)

\* The calls a thread may be making: one argument supplied.
Calls ==
    {[NoCall EXCEPT !.pc = IF b = None THEN "query" ELSE "probe",
                    !.ip = ip, !.blocked_services = bs, !.safesearch = ss, !.bedtime = b] :
        ip \in Addr,
        bs \in {None, Some({"twitch"})},
        ss \in {None, Some(TRUE)},
        b \in {None, Some(TRUE), Some(FALSE)}}

InitConc ==
    /\ leaseFile = Prefix(LeaseLines, MaxLeaseLines)
    /\ clients \in {Configured(ts) : ts \in Select(ClientTemplates, MaxInitClients)}
    /\ auto_clients = Prefix(AutoTemplates, MaxAuto)
    /\ rules \in {[a \in Addr |-> IF a \in blocked THEN 1 ELSE 0] :
                     blocked \in {{}, {"10.0.0.2"}}}
    /\ last = NoRequest
    /\ prev = NoPrev
    /\ served = 0
    /\ threads \in {f \in [Threads -> Calls] :
                       \A t \in Threads :
                           Supplied(<<f[t].blocked_services, f[t].safesearch,
                                      f[t].bedtime>>) = 1}

\* Lines 188-196: the probe; run_iptables follows when the probed state is not
\* the requested one, else the registry query.
Probe(t) ==
    LET c == threads[t]
        blocked == is_blocked_by_iptables(rules, c.ip, {})
    IN /\ c.pc = "probe"
       /\ threads' = [threads EXCEPT ![t].pc =
                          IF c.bedtime[1] # blocked THEN "mutate" ELSE "query"]
       /\ UNCHANGED <<leaseFile, clients, auto_clients, rules, last, prev, served>>

\* Lines 192, 196: run_iptables -I or -D. iptables -D on a rule that is no
\* longer in the chain exits non-zero.
Mutate(t) ==
    LET c == threads[t]
        flag == IF c.bedtime[1] THEN "-I" ELSE "-D"
    IN /\ c.pc = "mutate"
       /\ \E outcome \in IptablesOutcomes :
             /\ (flag = "-D" /\ rules[c.ip] = 0) => outcome # "ok"
             /\ run_iptables(rules, flag, c.ip, outcome)[c.ip] <= MaxRules
             /\ rules' = run_iptables(rules, flag, c.ip, outcome)
             /\ threads' = IF outcome = "raise"
                           THEN [threads EXCEPT ![t].pc = "done", ![t].result = "raise"]
                           ELSE [threads EXCEPT ![t].pc = "query"]
       /\ UNCHANGED <<leaseFile, clients, auto_clients, last, prev, served>>

\* Lines 199-206: the registry query; existing_client is the thread's copy of
\* the client found.
Query(t) ==
    LET c == threads[t]
    IN /\ c.pc = "query"
       /\ \E regOK \in BOOLEAN :
             LET found == FindExisting(clients, c.ip, regOK)
             IN threads' = [threads EXCEPT
                               ![t].pc = "write",
                               ![t].existing = IF found > 0 THEN Some(clients[found])
                                               ELSE None]
       /\ UNCHANGED <<leaseFile, clients, auto_clients, rules, last, prev, served>>

\* Lines 209-245: the update of the copy, or the add; the lease file read of
\* the add path is taken with it, the file being constant here.
Write(t) ==
    LET c == threads[t]
    IN /\ c.pc = "write"
       /\ \E writeOK \in BOOLEAN, leaseOK \in BOOLEAN :
             /\ c.existing # None => leaseOK
             /\ clients' =
                   IF c.existing # None
                   THEN LET client_data == UpdatedClient(c.existing[1], c.blocked_services,
                                                        c.safesearch)
                        IN RegistryUpdate(clients, client_data.name, client_data, writeOK)
                   ELSE RegistryAdd(clients,
                                    NewClient(c.ip, get_dhcp_leases(leaseFile, leaseOK),
                                              c.blocked_services, c.safesearch),
                                    writeOK)
             /\ Len(clients') <= MaxClients
             /\ threads' = [threads EXCEPT ![t].pc = "done",
                                           ![t].result = ApplyResult(writeOK)]
       /\ UNCHANGED <<leaseFile, auto_clients, rules, last, prev, served>>

ThreadProbe == \E t \in Threads : Probe(t)
ThreadMutate == \E t \in Threads : Mutate(t)
ThreadQuery == \E t \in Threads : Query(t)
ThreadWrite == \E t \in Threads : Write(t)

NextConc ==
    \/ ThreadProbe
    \/ ThreadMutate
    \/ ThreadQuery
    \/ ThreadWrite

SpecConc == InitConc /\ [][NextConc]_vars

----------------------------------------------------------------------------
(* Properties *)

\* The addresses of the three sources, read off the stores themselves.
LeaseAddrs == {leaseFile[i][3] : i \in {j \in 1..Len(leaseFile) : Len(leaseFile[j]) >= 4}}
\* A configured client's address is the first of its ids (line 118).
ConfiguredAddrs == {clients[i].ids[1] : i \in {k \in 1..Len(clients) : Len(clients[k].ids) > 0}}
AutoAddrs == {auto_clients[i].ip : i \in 1..Len(auto_clients)}
SourceAddrs == LeaseAddrs \cup ConfiguredAddrs \cup AutoAddrs

DevicesAt(devices, a) == {i \in 1..Len(devices) : devices[i].ip = a}

Returned(l) == l.result \in {"true", "false"}

\* C1: a listing with both reads succeeding holds exactly one device for each
\* address of any source, and the device of an address that is a configured
\* client's carries that client's policy; otherwise an auto-detected client's
\* name when there is one; otherwise empty policy fields.
C1_MergeCompleteness ==
    (last.kind = "list" /\ last.regOK /\ last.leaseOK) =>
        /\ \A a \in SourceAddrs : Cardinality(DevicesAt(last.devices, a)) = 1
        /\ \A i \in 1..Len(last.devices) :
              LET d == last.devices[i]
              IN /\ d.ip \in SourceAddrs
                 /\ IF d.ip \in ConfiguredAddrs
                    THEN \E k \in 1..Len(clients) :
                            /\ Len(clients[k].ids) > 0 /\ clients[k].ids[1] = d.ip
                            /\ d.name = clients[k].name
                            /\ d.blocked_services = clients[k].blocked_services
                            /\ d.safesearch_enabled = clients[k].safesearch_enabled
                    ELSE IF d.ip \in AutoAddrs
                    THEN \E k \in 1..Len(auto_clients) :
                            auto_clients[k].ip = d.ip /\ d.name = auto_clients[k].name
                    ELSE d.blocked_services = {} /\ ~d.safesearch_enabled

\* C2: a listing whose registry query fails while the lease file is read holds
\* exactly one device for each address of the lease file, and is answered.
C2_FailSoftListing ==
    (last.kind = "list" /\ ~last.regOK /\ last.leaseOK) =>
        /\ Len(last.devices) = Cardinality(LeaseAddrs)
        /\ \A a \in LeaseAddrs : Cardinality(DevicesAt(last.devices, a)) = 1
        /\ last.status = 200

C2_Witness ==
    /\ last.kind = "list" /\ ~last.regOK /\ last.leaseOK
    /\ Cardinality(LeaseAddrs) = 2
    /\ Len(last.devices) = 2

\* C3: on every path of a listing, the fallback included, each device's
\* bedtime_enabled is the probe of its address at listing time: true exactly
\* when the chain holds a drop rule for it and the probe executes.
C3_BedtimeFromProbe ==
    last.kind = "list" =>
        \A i \in 1..Len(last.devices) :
            last.devices[i].bedtime_enabled
                = (/\ last.devices[i].ip \in Addr
                   /\ rules[last.devices[i].ip] > 0
                   /\ last.devices[i].ip \notin last.probeFail)

\* C4: a second apply(ip, bedtime=true) right after a first one leaves the probe
\* state the first one left, and the chain never holds two drop rules for ip.
C4_BedtimeIdempotent ==
    (/\ prev.returned /\ prev.bedtime = Some(TRUE)
     /\ Returned(last) /\ last.bedtime = Some(TRUE) /\ last.ip = prev.ip) =>
        /\ (rules[last.ip] > 0) = prev.blocked
        /\ rules[last.ip] <= 1

\* C5: an apply right after an apply that created the client of an address no
\* configured client contained issues an update and no second add.
C5_CreatesOnce ==
    (/\ prev.returned /\ prev.created
     /\ Returned(last) /\ last.ip = prev.ip) =>
        /\ ~InCalls("add:ok", last) /\ ~InCalls("add:fail", last)
        /\ InCalls("update:ok", last) \/ InCalls("update:fail", last)

\* C6: update_client_settings returns true exactly when its registry write
\* (update or add) reported success; when its filter mutation succeeded and the
\* write failed it returns false, the chain stays as mutated and the registry
\* is as it was.
C6_ResultIsWriteResult ==
    [][ (last.kind = "none" /\ last'.result # "none") =>
            /\ (last'.result = "true")
                   <=> (InCalls("update:ok", last') \/ InCalls("add:ok", last'))
            /\ (/\ InCalls("insert:ok", last') \/ InCalls("delete:ok", last')
                /\ InCalls("update:fail", last') \/ InCalls("add:fail", last')) =>
                   /\ last'.result = "false"
                   /\ clients' = clients
                   /\ rules' = [rules EXCEPT ![last'.ip] =
                                   IF InCalls("insert:ok", last') THEN @ + 1 ELSE @ - 1]
      ]_vars

C6_Witness ==
    /\ last.bedtime = Some(TRUE)
    /\ InCalls("insert:ok", last) /\ InCalls("add:fail", last)
    /\ last.result = "false"
    /\ rules[last.ip] = 1

\* C7: whenever apply(address, bedtime=b) returns success, the probe of the
\* address, read next with nothing in between, reports b.
C7_BedtimeReadBack ==
    (last.bedtime # None /\ last.result = "true") =>
        is_blocked_by_iptables(rules, last.ip, {}) = last.bedtime[1]

\* C8: a category toggle for an address some configured client contains writes
\* that client's current blocked services united with the category's services
\* when toggling on, and minus them when toggling off.
C8_ToggleWritesUnionOrDifference ==
    [][ (/\ last.kind = "none" /\ last'.kind = "toggle_block"
         /\ InCalls("update:ok", last')
         /\ FirstWithId(clients, last'.ip, 1) > 0) =>
            last'.written[1].blocked_services
                = ToggledServices(clients[FirstWithId(clients, last'.ip, 1)].blocked_services,
                                  last'.category, last'.enabled)
      ]_vars

\* C9: the social-media checkbox of every listed device is checked exactly when
\* one of the services of the social_media category is among its blocked
\* services.
C9_SocialToggleIsCategoryView ==
    last.kind = "list" =>
        \A i \in 1..Len(last.devices) :
            SocialToggleShown(last.devices[i])
                <=> (last.devices[i].blocked_services \cap BLOCKED_SERVICES.social_media # {})

\* C10: after a successful apply(address, safesearch=v), a listing made next
\* with the registry reachable holds a device whose ip is the address and whose
\* safesearch_enabled is v.
C10_SafesearchReadBack ==
    (last.safesearch # None /\ last.result = "true") =>
        \A leaseOK \in BOOLEAN :
            LET devices == get_connected_clients(leaseFile, clients, auto_clients, rules,
                                                 leaseOK, TRUE, {})
            IN \E i \in 1..Len(devices) :
                  /\ devices[i].ip = last.ip
                  /\ devices[i].safesearch_enabled = last.safesearch[1]

\* The adapter calls update_client_settings made, without those of the listing
\* a category toggle makes before it.
ApplyCalls(l) ==
    IF l.kind = "toggle_block"
    THEN SubSeq(l.calls, Len(ListingCalls(l.devices, l.leaseOK, l.regOK)) + 1, Len(l.calls))
    ELSE l.calls

Called(c, l) == \E i \in 1..Len(ApplyCalls(l)) : ApplyCalls(l)[i] = c

MutatorFailed(l) ==
    \/ Called("insert:error", l) \/ Called("insert:raise", l)
    \/ Called("delete:error", l) \/ Called("delete:raise", l)

\* C11: when run_iptables exits with an error or cannot be executed, the chain
\* is as it was and update_client_settings still returns a boolean: no
\* exception leaves it.
C11_MutatorFailureContained ==
    [][ (last.kind = "none" /\ MutatorFailed(last')) =>
            /\ rules' = rules
            /\ Returned(last')
      ]_vars

\* C12: a toggle request without an address (a category toggle also: without a
\* category) is answered 400 before any adapter is called: no probe, no lease
\* or registry read, no write, and the registry and the chain are as they were.
C12_RejectedBeforeAdapters ==
    [][ (/\ last.kind = "none"
         /\ last'.kind \in {"toggle_block", "toggle_safesearch", "toggle_bedtime"}
         /\ \/ last'.ip = ""
            \/ last'.kind = "toggle_block" /\ last'.category = "") =>
            /\ last'.status = 400
            /\ last'.calls = <<>>
            /\ last'.result = "none"
            /\ clients' = clients
            /\ rules' = rules
      ]_vars

C12_Witness ==
    /\ last.kind = "toggle_block"
    /\ last.ip \in Addr /\ last.category = ""
    /\ last.status = 400
    /\ last.calls = <<>>

\* The auto-detected clients a listing emits: those whose address no configured
\* client and no earlier auto-detected client has.
EmittedAuto ==
    {k \in 1..Len(auto_clients) :
        /\ auto_clients[k].ip \notin ConfiguredAddrs
        /\ \A j \in 1..(k - 1) : auto_clients[j].ip # auto_clients[k].ip}

ChainCalls == {"probe:blocked", "probe:clear",
               "insert:ok", "insert:error", "insert:raise",
               "delete:ok", "delete:error", "delete:raise"}

\* C14: a call of update_client_settings without bedtime_mode makes no probe
\* and no insert or delete, and the chain after it is the chain before it,
\* whatever blocked_services and safesearch are and whether the registry write
\* succeeds or fails.
C14_NoBedtimeNoChainAccess ==
    [][ (last.kind = "none" /\ last'.result # "none" /\ last'.bedtime = None) =>
            /\ \A c \in ChainCalls : ~Called(c, last')
            /\ rules' = rules
      ]_vars

C14_Witness ==
    /\ last.kind = "apply" /\ last.bedtime = None
    /\ last.blocked_services # None /\ last.safesearch # None
    /\ last.result = "false"
    /\ rules[last.ip] = 1

Probes == {"probe:blocked", "probe:clear"}
Inserts == {"insert:ok", "insert:error", "insert:raise"}
Deletes == {"delete:ok", "delete:error", "delete:raise"}

Positions(cs, kinds) == {i \in 1..Len(cs) : cs[i] \in kinds}

\* C15: a call of update_client_settings with bedtime_mode probes first and
\* once; it calls run_iptables exactly when the requested state differs from
\* the probed one, with -I when bedtime is requested and -D when it is lifted,
\* and not at all when they agree; the registry query and the write come after
\* both.
C15_ProbeThenMutateThenRegistry ==
    (last.result # "none" /\ last.bedtime # None) =>
        LET cs == ApplyCalls(last)
            want == last.bedtime[1]
            probed == cs[1] = "probe:blocked"
            mutations == Positions(cs, Inserts \cup Deletes)
        IN /\ Len(cs) >= 1
           /\ Positions(cs, Probes) = {1}
           /\ mutations = IF want # probed THEN {2} ELSE {}
           /\ mutations # {} => (cs[2] \in Inserts <=> want)
           /\ Returned(last) =>
                 /\ Len(cs) >= Cardinality(mutations) + 3
                 /\ cs[Cardinality(mutations) + 2] \in {"get_clients:ok", "get_clients:fail"}
                 /\ cs[Len(cs)] \in {"update:ok", "update:fail", "add:ok", "add:fail"}

C15_Witness ==
    /\ last.bedtime = Some(FALSE)
    /\ ApplyCalls(last) = <<"probe:blocked", "delete:ok", "get_clients:ok", "update:ok">>
    /\ rules[last.ip] = 0

Updates == {"update:ok", "update:fail"}
Adds == {"add:ok", "add:fail"}

\* The first configured client whose ids hold the address (0: none does).
Holder(cs, ip) ==
    LET holders == {i \in 1..Len(cs) : \E j \in 1..Len(cs[i].ids) : cs[i].ids[j] = ip}
    IN IF holders = {} THEN 0 ELSE CHOOSE i \in holders : \A h \in holders : i <= h

\* C16: when the registry query finds a configured client whose ids hold the
\* address, update_client_settings issues one update under that client's name
\* and no add; the record it writes is the one found, with blocked_services
\* replaced only if supplied, safesearch_enabled replaced only if supplied,
\* filtering_enabled true, and every other field as found.
C16_UpdateWritesFoundRecord ==
    [][ (/\ last.kind = "none" /\ Returned(last')
         /\ Called("get_clients:ok", last')
         /\ Holder(clients, last'.ip) > 0) =>
            LET k == Holder(clients, last'.ip)
                found == clients[k]
                w == last'.written[1]
                cs == ApplyCalls(last')
            IN /\ Cardinality(Positions(cs, Updates)) = 1
               /\ Positions(cs, Adds) = {}
               /\ DOMAIN w = DOMAIN found
               /\ \A f \in DOMAIN found \ {"blocked_services", "safesearch_enabled",
                                           "filtering_enabled"} : w[f] = found[f]
               /\ w.blocked_services = IF last'.blocked_services # None
                                       THEN last'.blocked_services[1]
                                       ELSE found.blocked_services
               /\ w.safesearch_enabled = IF last'.safesearch # None
                                         THEN last'.safesearch[1]
                                         ELSE found.safesearch_enabled
               /\ w.filtering_enabled
               /\ clients' = IF Called("update:ok", last')
                             THEN [clients EXCEPT ![k] = w]
                             ELSE clients
      ]_vars

C16_Witness ==
    /\ last.kind = "toggle_safesearch" /\ last.ip = "10.0.0.2" /\ ~last.enabled
    /\ ApplyCalls(last) = <<"get_clients:ok", "update:ok">>
    /\ last.written[1].blocked_services = {"facebook", "roblox"}
    /\ ~last.written[1].safesearch_enabled
    /\ last.written[1].filtering_enabled
    /\ Holder(clients, "10.0.0.2") > 0
    /\ clients[Holder(clients, "10.0.0.2")] = last.written[1]

\* The hostname the lease file gives an address, read off the file: that of the
\* last line of four or more fields naming the address, where a "*" stands for
\* "Device-" and the tail of the MAC; None without such a line.
LeaseHostname(ip) ==
    LET ls == {i \in 1..Len(leaseFile) : Len(leaseFile[i]) >= 4 /\ leaseFile[i][3] = ip}
    IN IF ls = {} THEN None
       ELSE LET i == CHOOSE m \in ls : \A n \in ls : n <= m
            IN Some(IF leaseFile[i][4] = "*"
                    THEN "Device-" \o MacTail(leaseFile[i][2])
                    ELSE leaseFile[i][4])

\* C17: when no configured client holds the address, update_client_settings
\* issues one add and no update, of a record named by the lease's hostname for
\* the address (by "Device-" and the address when the leases read hold none),
\* with ids = [address], use_global_settings false, filtering_enabled true,
\* parental_enabled false, safebrowsing_enabled true, safesearch_enabled the
\* supplied value or false, blocked_services the supplied value or empty.
C17_AddWritesNewRecord ==
    [][ (/\ last.kind = "none" /\ Returned(last')
         /\ Holder(clients, last'.ip) = 0) =>
            LET ip == last'.ip
                w == last'.written[1]
                cs == ApplyCalls(last')
                lease == IF Called("get_leases:ok", last') THEN LeaseHostname(ip) ELSE None
            IN /\ Cardinality(Positions(cs, Adds)) = 1
               /\ Positions(cs, Updates) = {}
               /\ w = [name |-> IF lease # None THEN lease[1] ELSE "Device-" \o ip,
                       ids |-> <<ip>>,
                       use_global_settings |-> FALSE,
                       filtering_enabled |-> TRUE,
                       parental_enabled |-> FALSE,
                       safebrowsing_enabled |-> TRUE,
                       safesearch_enabled |-> IF last'.safesearch # None
                                              THEN last'.safesearch[1] ELSE FALSE,
                       blocked_services |-> IF last'.blocked_services # None
                                            THEN last'.blocked_services[1] ELSE {}]
               /\ clients' = IF Called("add:ok", last') THEN Append(clients, w) ELSE clients
      ]_vars

C17_Witness ==
    /\ last.kind = "toggle_bedtime" /\ last.ip = "10.0.0.1"
    /\ Called("get_clients:ok", last) /\ Called("add:ok", last)
    /\ last.written[1].name = "kids-tablet"
    /\ ~last.written[1].safesearch_enabled
    /\ last.written[1].blocked_services = {}
    /\ clients = <<last.written[1]>>

\* C18: a listing and a statistics read leave the lease file, the registry and
\* the chain as they were, and a listing makes one probe call for each device
\* it emits.
C18_ReadsAreReadOnly ==
    [][ (last.kind = "none" /\ last'.kind \in {"list", "stats"}) =>
            /\ leaseFile' = leaseFile
            /\ clients' = clients
            /\ auto_clients' = auto_clients
            /\ rules' = rules
            /\ last'.kind = "list" =>
                  Cardinality(Positions(last'.calls, Probes)) = Len(last'.devices)
      ]_vars

\* C19: while two calls of update_client_settings with bedtime_mode true for
\* one address run at once, in whatever order their steps interleave, the
\* chain holds at most one drop rule for the address.
C19_NoDuplicateRuleUnderRace ==
    (/\ \A t \in Threads : threads[t].bedtime = Some(TRUE)
     /\ threads["t1"].ip = threads["t2"].ip) =>
        rules[threads["t1"].ip] <= 1

\* A thread's registry write.
Writes(t) == threads[t].pc = "write" /\ threads'[t].pc = "done"

\* C20 as stated: the registry write of a call that supplies only safesearch
\* leaves the blocked_services stored for the address as they were, and that
\* of a call that supplies only blocked_services leaves safesearch_enabled as
\* it was, also when another call wrote since this call's query.
C20_UnsuppliedFieldUnchanged ==
    [][ \A t \in Threads :
            LET c == threads[t]
                k == Holder(clients, c.ip)
            IN (Writes(t) /\ k > 0) =>
                  /\ (c.blocked_services = None /\ c.safesearch # None) =>
                        clients'[k].blocked_services = clients[k].blocked_services
                  /\ (c.safesearch = None /\ c.blocked_services # None) =>
                        clients'[k].safesearch_enabled = clients[k].safesearch_enabled
      ]_vars

\* C20, amended: the successful update of a call writes, under the name of the
\* client its query found, that client as the query found it with only the
\* supplied field replaced: blocked_services not supplied are stored as read,
\* safesearch_enabled not supplied is stored as read. So the field is
\* unchanged when the stored client is still the one read, and a write another
\* call made to it in between is overwritten (the last write wins).
C20_UnsuppliedFieldAsRead ==
    [][ \A t \in Threads :
            LET c == threads[t]
            IN (Writes(t) /\ c.existing # None /\ threads'[t].result = "true") =>
                  \E k \in 1..Len(clients) :
                     /\ clients[k].name = c.existing[1].name
                     /\ \A j \in 1..(k - 1) : clients[j].name # c.existing[1].name
                     /\ clients' = [clients EXCEPT ![k] = clients'[k]]
                     /\ c.blocked_services = None =>
                           clients'[k].blocked_services = c.existing[1].blocked_services
                     /\ c.safesearch = None =>
                           clients'[k].safesearch_enabled = c.existing[1].safesearch_enabled
                     /\ clients[k] = c.existing[1] =>
                           /\ c.blocked_services = None =>
                                 clients'[k].blocked_services = clients[k].blocked_services
                           /\ c.safesearch = None =>
                                 clients'[k].safesearch_enabled
                                     = clients[k].safesearch_enabled
      ]_vars

\* Both calls have written with success; the one that supplied only safesearch
\* wrote last and the stored blocked_services are those it had read, not those
\* the other call wrote.
C20_Witness ==
    /\ \A t \in Threads : threads[t].pc = "done" /\ threads[t].result = "true"
                          /\ threads[t].existing # None
    /\ threads["t1"].ip = threads["t2"].ip
    /\ threads["t1"].safesearch # None
    /\ threads["t2"].blocked_services # None
    /\ LET k == Holder(clients, threads["t1"].ip)
       IN /\ k > 0
          /\ clients[k].blocked_services = threads["t1"].existing[1].blocked_services
          /\ clients[k].blocked_services # threads["t2"].blocked_services[1]
          /\ clients[k].safesearch_enabled = threads["t1"].safesearch[1]

\* C21: update_client_settings issues no add for an address that a configured
\* client of the registry holds when it is called, also when its own registry
\* query fails or is answered with an empty body.
C21_NoAddForHeldAddress ==
    [][ (/\ last.kind = "none" /\ last'.result # "none"
         /\ Holder(clients, last'.ip) > 0) =>
            Positions(ApplyCalls(last'), Adds) = {}
      ]_vars

\* C22: a category toggle for an address that no device of the listing it
\* fetched has is answered 404 without calling update_client_settings: no
\* registry write, no insert or delete, the registry and the chain as they
\* were; update_client_settings is called only for an address of the listing.
C22_ToggleUnlistedNotFound ==
    [][ (/\ last.kind = "none" /\ last'.kind = "toggle_block"
         /\ last'.ip # "" /\ last'.category # "") =>
            LET listed == DevicesAt(last'.devices, last'.ip) # {}
            IN /\ ~listed =>
                     /\ last'.status = 404
                     /\ last'.result = "none"
                     /\ ApplyCalls(last') = <<>>
                     /\ last'.written = <<>>
                     /\ clients' = clients
                     /\ rules' = rules
               /\ (last'.result # "none" \/ ApplyCalls(last') # <<>>) => listed
      ]_vars

C22_Witness ==
    /\ last.kind = "toggle_block" /\ last.status = 404
    /\ last.ip = "10.0.0.2"
    /\ Holder(clients, "10.0.0.2") > 0
    /\ Len(last.devices) >= 1
    /\ DevicesAt(last.devices, "10.0.0.2") = {}

====
